---------------------------- MODULE Spec2Model ----------------------------
(***************************************************************************)
(* The RocksDB NIF wrapper of TripleStore (native/rocksdb_nif/src/lib.rs): *)
(* a store handle DbRef { db: RwLock<Option<DB>>, path }, the column       *)
(* family registry, the four point operations, the three batch operations  *)
(* and close.  Every NIF call is a process that moves through the places   *)
(* where it can interleave with other calls: the request of the guard, its  *)
(* acquisition, the state check, the engine call and the drop of the guard. *)
(***************************************************************************)
EXTENDS Naturals, Sequences, FiniteSets, TLC

(***************************************************************************)
(* Bounds of the model.                                                    *)
(***************************************************************************)
NumProcs == 2       \* concurrent callers in Spec
MaxBatchLen == 2    \* longest operation list a batch call is given in SpecSeq

\* The callers of Spec, and the processes there are: one more than the callers
\* of Spec, which only SpecFair lets call (a close is kept waiting for good
\* only by two callers whose operations overlap).
Callers == 1..NumProcs
Procs == 1..(NumProcs + 1)

(***************************************************************************)
(* Erlang terms as the NIF sees them: atoms, binaries, tuples and lists.   *)
(***************************************************************************)
Atom(a)  == [t |-> "atom",  v |-> a,  el |-> <<>>]
Bin(b)   == [t |-> "bin",   v |-> b,  el |-> <<>>]
Tuple(s) == [t |-> "tuple", v |-> "", el |-> s]
List(s)  == [t |-> "list",  v |-> "", el |-> s]
NoTerm   == Atom("")

(***************************************************************************)
(* Results returned to the caller.                                         *)
(***************************************************************************)
NoResult        == <<>>
Ok              == <<"ok">>
OkValue(v)      == <<"ok", v>>
OkBool(b)       == <<"ok", IF b THEN "true" ELSE "false">>
not_found       == <<"not_found">>
already_closed  == <<"error", "already_closed">>
invalid_cf(cf)  == <<"error", "invalid_cf", cf>>
get_failed      == <<"error", "get_failed", "io">>
put_failed      == <<"error", "put_failed", "io">>
delete_failed   == <<"error", "delete_failed", "io">>
batch_failed    == <<"error", "batch_failed", "io">>
invalid_operation      == <<"error", "invalid_operation">>
invalid_operation_of(op) == <<"error", "invalid_operation", op>>
ErrorTerm(msg)  == <<"error", msg>>
lock_poisoned   == ErrorTerm("lock poisoned")
nif_panicked    == <<"raise", "nif_panicked">>

(***************************************************************************)
(* Column family registry.                                                 *)
(***************************************************************************)
CF_NAMES == <<"id2str", "str2id", "spo", "pos", "osp", "derived">>
CfSet == {CF_NAMES[i] : i \in 1..Len(CF_NAMES)}
None == "none"

\* A registry that takes any atom for a family name.
cf_atom_to_name_any(cf_atom) == cf_atom

cf_atom_to_name(cf_atom) ==
    IF cf_atom = "id2str" THEN "id2str"
    ELSE IF cf_atom = "str2id" THEN "str2id"
    ELSE IF cf_atom = "spo" THEN "spo"
    ELSE IF cf_atom = "pos" THEN "pos"
    ELSE IF cf_atom = "osp" THEN "osp"
    ELSE IF cf_atom = "derived" THEN "derived"
    ELSE None

\* db.cf_handle(name): the handles are those of the descriptors open() passed.
cf_handle(cf_name) == IF cf_name \in CfSet THEN cf_name ELSE None

(***************************************************************************)
(* The engine: per column family a map from keys to values.  Each engine   *)
(* call is one atomic step that either succeeds or fails with an I/O error  *)
(* and then changes nothing.                                               *)
(***************************************************************************)
EmptyMap == [k \in {} |-> ""]
EmptyStore == [cf \in CfSet |-> EmptyMap]

get_cf(d, cf, key) ==
    IF key \in DOMAIN d[cf] THEN <<"some", d[cf][key]>> ELSE <<"none">>

\* A put that keeps the value a key already has.
put_cf_if_absent(d, cf, key, value) ==
    [d EXCEPT ![cf] = [k \in DOMAIN d[cf] \cup {key} |->
                          IF k \in DOMAIN d[cf] THEN d[cf][k] ELSE value]]

put_cf(d, cf, key, value) ==
    [d EXCEPT ![cf] = [k \in DOMAIN d[cf] \cup {key} |->
                          IF k = key THEN value ELSE d[cf][k]]]

\* A delete that removes the key from every column family.
delete_cf_all_families(d, cf, key) ==
    [f \in DOMAIN d |-> [k \in DOMAIN d[f] \ {key} |-> d[f][k]]]

delete_cf(d, cf, key) ==
    [d EXCEPT ![cf] = [k \in DOMAIN d[cf] \ {key} |-> d[cf][k]]]

\* One staged operation of a WriteBatch.
BatchPut(cf, key, value) == [op |-> "put", cf |-> cf, key |-> key, val |-> value]
BatchDelete(cf, key)     == [op |-> "delete", cf |-> cf, key |-> key, val |-> ""]

ApplyOp(d, o) ==
    IF o.op = "put" THEN put_cf(d, o.cf, o.key, o.val)
    ELSE delete_cf(d, o.cf, o.key)

\* db.write(batch): the staged operations applied in the order they were staged.
RECURSIVE ApplyFrom(_, _, _)
ApplyFrom(d, batch, i) ==
    IF i > Len(batch) THEN d ELSE ApplyFrom(ApplyOp(d, batch[i]), batch, i + 1)

\* A commit that applies the staged operations last to first.
write_reversed(d, batch) ==
    ApplyFrom(d, [i \in 1..Len(batch) |-> batch[Len(batch) + 1 - i]], 1)

write(d, batch) == ApplyFrom(d, batch, 1)

(***************************************************************************)
(* Batch construction: the three loops that decode the operation list and  *)
(* stage it.  Each returns the error that ended the loop (NoResult when    *)
(* none did) and the WriteBatch staged so far.                             *)
(***************************************************************************)
Staged(err, batch) == [err |-> err, batch |-> batch]

\* Resolution of a decoded family atom: cf_atom_to_name, then db.cf_handle.
resolve(cf_atom) ==
    LET cf_name == cf_atom_to_name(cf_atom) IN
    IF cf_name = None THEN None ELSE cf_handle(cf_name)

write_batch_item(item) ==
    IF item.t # "tuple" THEN Staged(ErrorTerm("expected tuple"), <<>>)
    ELSE LET tuple == item.el IN
    IF Len(tuple) = 3 THEN
        IF tuple[1].t # "atom" THEN Staged(ErrorTerm("expected atom for cf"), <<>>)
        ELSE IF tuple[2].t # "bin" THEN Staged(ErrorTerm("expected binary for key"), <<>>)
        ELSE IF tuple[3].t # "bin" THEN Staged(ErrorTerm("expected binary for value"), <<>>)
        ELSE IF resolve(tuple[1].v) = None THEN Staged(invalid_cf(tuple[1].v), <<>>)
        ELSE Staged(NoResult, <<BatchPut(resolve(tuple[1].v), tuple[2].v, tuple[3].v)>>)
    ELSE IF Len(tuple) = 4 THEN
        IF tuple[1].t # "atom" THEN Staged(ErrorTerm("expected atom for operation"), <<>>)
        ELSE IF tuple[2].t # "atom" THEN Staged(ErrorTerm("expected atom for cf"), <<>>)
        ELSE IF tuple[3].t # "bin" THEN Staged(ErrorTerm("expected binary for key"), <<>>)
        ELSE IF tuple[4].t # "bin" THEN Staged(ErrorTerm("expected binary for value"), <<>>)
        ELSE IF tuple[1].v # "put" THEN Staged(invalid_operation_of(tuple[1].v), <<>>)
        ELSE IF resolve(tuple[2].v) = None THEN Staged(invalid_cf(tuple[2].v), <<>>)
        ELSE Staged(NoResult, <<BatchPut(resolve(tuple[2].v), tuple[3].v, tuple[4].v)>>)
    ELSE Staged(invalid_operation, <<>>)

delete_batch_item(item) ==
    IF item.t # "tuple" THEN Staged(ErrorTerm("expected tuple"), <<>>)
    ELSE LET tuple == item.el IN
    IF Len(tuple) # 2 THEN Staged(invalid_operation, <<>>)
    ELSE IF tuple[1].t # "atom" THEN Staged(ErrorTerm("expected atom for cf"), <<>>)
    ELSE IF tuple[2].t # "bin" THEN Staged(ErrorTerm("expected binary for key"), <<>>)
    ELSE IF resolve(tuple[1].v) = None THEN Staged(invalid_cf(tuple[1].v), <<>>)
    ELSE Staged(NoResult, <<BatchDelete(resolve(tuple[1].v), tuple[2].v)>>)

\* A mixed batch that reads its entries the way write_batch does.
mixed_batch_item_untagged(item) == write_batch_item(item)

mixed_batch_item(item) ==
    IF item.t # "tuple" THEN Staged(ErrorTerm("expected tuple"), <<>>)
    ELSE LET tuple == item.el IN
    IF Len(tuple) = 0 THEN Staged(invalid_operation, <<>>)
    ELSE IF tuple[1].t # "atom" THEN Staged(ErrorTerm("expected atom for operation"), <<>>)
    ELSE IF tuple[1].v = "put" THEN
        IF Len(tuple) # 4 THEN Staged(invalid_operation, <<>>)
        ELSE IF tuple[2].t # "atom" THEN Staged(ErrorTerm("expected atom for cf"), <<>>)
        ELSE IF tuple[3].t # "bin" THEN Staged(ErrorTerm("expected binary for key"), <<>>)
        ELSE IF tuple[4].t # "bin" THEN Staged(ErrorTerm("expected binary for value"), <<>>)
        ELSE IF resolve(tuple[2].v) = None THEN Staged(invalid_cf(tuple[2].v), <<>>)
        ELSE Staged(NoResult, <<BatchPut(resolve(tuple[2].v), tuple[3].v, tuple[4].v)>>)
    ELSE IF tuple[1].v = "delete" THEN
        IF Len(tuple) # 3 THEN Staged(invalid_operation, <<>>)
        ELSE IF tuple[2].t # "atom" THEN Staged(ErrorTerm("expected atom for cf"), <<>>)
        ELSE IF tuple[3].t # "bin" THEN Staged(ErrorTerm("expected binary for key"), <<>>)
        ELSE IF resolve(tuple[2].v) = None THEN Staged(invalid_cf(tuple[2].v), <<>>)
        ELSE Staged(NoResult, <<BatchDelete(resolve(tuple[2].v), tuple[3].v)>>)
    ELSE Staged(invalid_operation_of(tuple[1].v), <<>>)

\* The item decoder of each batch operation.
stage_item(op, item) ==
    IF op = "write_batch" THEN write_batch_item(item)
    ELSE IF op = "delete_batch" THEN delete_batch_item(item)
    ELSE mixed_batch_item(item)

\* A loop that looks at every entry and reports the last one it cannot stage.
RECURSIVE stage_reporting_last(_, _, _, _)
stage_reporting_last(op, items, i, batch) ==
    IF i > Len(items) THEN Staged(NoResult, batch)
    ELSE LET r == stage_item(op, items[i])
             rest == stage_reporting_last(op, items, i + 1, batch \o r.batch)
         IN  IF rest.err # NoResult THEN rest
             ELSE IF r.err # NoResult THEN Staged(r.err, batch)
             ELSE rest

\* for item in iter { ... }: stops at the first item that returns.
RECURSIVE stage_from(_, _, _, _)
stage_from(op, items, i, batch) ==
    IF i > Len(items) THEN Staged(NoResult, batch)
    ELSE LET r == stage_item(op, items[i]) IN
         IF r.err # NoResult THEN Staged(r.err, batch)
         ELSE stage_from(op, items, i + 1, batch \o r.batch)

\* A loop that skips an entry it cannot stage and carries on with the rest.
RECURSIVE stage_skipping(_, _, _, _)
stage_skipping(op, items, i, batch) ==
    IF i > Len(items) THEN Staged(NoResult, batch)
    ELSE LET r == stage_item(op, items[i]) IN
         IF r.err # NoResult THEN stage_skipping(op, items, i + 1, batch)
         ELSE stage_skipping(op, items, i + 1, batch \o r.batch)

stage_continue(op, operations) ==
    IF operations.t # "list" THEN Staged(ErrorTerm("expected list"), <<>>)
    ELSE stage_skipping(op, operations.el, 1, <<>>)

\* A batch that refuses a list with nothing in it.
stage_rejecting_empty(op, operations) ==
    IF operations.t # "list" THEN Staged(ErrorTerm("expected list"), <<>>)
    ELSE IF Len(operations.el) = 0 THEN Staged(invalid_operation, <<>>)
    ELSE stage_from(op, operations.el, 1, <<>>)

\* operations.decode::<ListIterator>() and the loop over it.
stage(op, operations) ==
    IF operations.t # "list" THEN Staged(ErrorTerm("expected list"), <<>>)
    ELSE stage_from(op, operations.el, 1, <<>>)

(***************************************************************************)
(* State.                                                                  *)
(*   db       the Option<DB> inside the RwLock: "Some" or None             *)
(*   data     the contents of the engine at DbRef.path                     *)
(*   readers  the calls that hold the RwLock's read guard                  *)
(*   writer   the calls that hold its write guard (at most one)            *)
(*   pc       where each call is; "ret" is outside any call               *)
(*   call     the NIF and arguments of each caller's current or last call  *)
(*   res      what that call returned (NoResult while it runs)             *)
(*   batch    the WriteBatch a batch call has staged                       *)
(*   path     DbRef.path                                                   *)
(*   poisoned the poison flag of the RwLock                                *)
(*   queued   history: the close calls whose request found the guard in    *)
(*            use and that wait for it                                     *)
(*   behind   history: the queued close calls a call found when it asked   *)
(*            for the shared guard, and that still wait                    *)
(***************************************************************************)
VARIABLES db, data, readers, writer, pc, call, res, batch, path, poisoned,
          behind, queued

vars == <<db, data, readers, writer, pc, call, res, batch, path, poisoned,
          behind, queued>>

NoCall == [op |-> "", cf |-> "", key |-> "", val |-> "", ops |-> NoTerm]
PointCall(op, cf, key, val) ==
    [op |-> op, cf |-> cf, key |-> key, val |-> val, ops |-> NoTerm]
BatchCall(op, operations) ==
    [op |-> op, cf |-> "", key |-> "", val |-> "", ops |-> operations]

PointOps == {"get", "put", "delete", "exists"}
BatchOps == {"write_batch", "delete_batch", "mixed_batch"}

\* open(): DbRef::new(db, path) with the six column families created.
Init ==
    /\ db = "Some"
    /\ data = EmptyStore
    /\ readers = {}
    /\ writer = {}
    /\ pc = [p \in Procs |-> "ret"]
    /\ call = [p \in Procs |-> NoCall]
    /\ res = [p \in Procs |-> NoResult]
    /\ batch = [p \in Procs |-> <<>>]
    /\ path = "/tmp/s"
    /\ poisoned = FALSE
    /\ behind = [p \in Procs |-> {}]
    /\ queued = {}

(***************************************************************************)
(* The RwLock.  std::sync::RwLock promises no priority policy, so a read   *)
(* is granted whenever no writer holds the lock, whether or not one waits. *)
(***************************************************************************)
\* A read lock that is granted while close holds the write lock.
CanRead_IgnoringWriter == TRUE

CanRead == writer = {}

\* A write lock that does not wait for the readers to leave.
CanWrite_IgnoringReaders == writer = {}

CanWrite == writer = {} /\ readers = {}

\* The close calls that wait for the guard at this moment.
WaitingClosers == {q \in Procs : pc[q] = "wrwait"}

\* The guard is in use: a request for the exclusive guard has to wait.
InUse == readers # {} \/ writer # {}

\* The prologue of a point operation: the family is resolved before the guard
\* is requested.
Enter(p, c) ==
    /\ pc[p] = "ret"
    /\ call' = [call EXCEPT ![p] = c]
    /\ IF cf_atom_to_name(c.cf) = None
       THEN /\ res' = [res EXCEPT ![p] = invalid_cf(c.cf)]
            /\ pc' = [pc EXCEPT ![p] = "done"]
            /\ behind' = behind
       ELSE /\ res' = [res EXCEPT ![p] = NoResult]
            /\ pc' = [pc EXCEPT ![p] = "rdwait"]
            /\ behind' = [behind EXCEPT ![p] = queued]
    /\ UNCHANGED <<db, data, readers, writer, batch, path, queued, poisoned>>

\* The prologue of a batch operation: the guard is requested first.
EnterBatch(p, c) ==
    /\ pc[p] = "ret"
    /\ call' = [call EXCEPT ![p] = c]
    /\ res' = [res EXCEPT ![p] = NoResult]
    /\ pc' = [pc EXCEPT ![p] = "rdwait"]
    /\ behind' = [behind EXCEPT ![p] = queued]
    /\ UNCHANGED <<db, data, readers, writer, batch, path, queued, poisoned>>

get(p, In) ==
    /\ pc[p] = "ret"
    /\ \E cf \in In.cfs, key \in In.keys : Enter(p, PointCall("get", cf, key, ""))

put(p, In) ==
    /\ pc[p] = "ret"
    /\ \E a \in In.puts : Enter(p, PointCall("put", a[1], a[2], a[3]))

delete(p, In) ==
    /\ pc[p] = "ret"
    /\ \E cf \in In.cfs, key \in In.keys : Enter(p, PointCall("delete", cf, key, ""))

exists(p, In) ==
    /\ pc[p] = "ret"
    /\ \E cf \in In.cfs, key \in In.keys : Enter(p, PointCall("exists", cf, key, ""))

write_batch(p, In) ==
    /\ pc[p] = "ret"
    /\ \E operations \in In.wb : EnterBatch(p, BatchCall("write_batch", operations))

delete_batch(p, In) ==
    /\ pc[p] = "ret"
    /\ \E operations \in In.dl : EnterBatch(p, BatchCall("delete_batch", operations))

mixed_batch(p, In) ==
    /\ pc[p] = "ret"
    /\ \E operations \in In.mb : EnterBatch(p, BatchCall("mixed_batch", operations))

close(p) ==
    /\ pc[p] = "ret"
    /\ call' = [call EXCEPT ![p] = PointCall("close", "", "", "")]
    /\ res' = [res EXCEPT ![p] = NoResult]
    /\ pc' = [pc EXCEPT ![p] = "wrwait"]
    /\ queued' = IF InUse THEN queued \cup {p} ELSE queued
    /\ UNCHANGED <<db, data, readers, writer, batch, path, behind, poisoned>>

\* is_open requests the read guard; it resolves no family.
is_open(p) ==
    /\ pc[p] = "ret"
    /\ call' = [call EXCEPT ![p] = PointCall("is_open", "", "", "")]
    /\ res' = [res EXCEPT ![p] = NoResult]
    /\ pc' = [pc EXCEPT ![p] = "rdwait"]
    /\ behind' = [behind EXCEPT ![p] = queued]
    /\ UNCHANGED <<db, data, readers, writer, batch, path, queued, poisoned>>

\* get_path reads DbRef.path and takes no guard.
get_path(p) ==
    /\ pc[p] = "ret"
    /\ call' = [call EXCEPT ![p] = PointCall("get_path", "", "", "")]
    /\ res' = [res EXCEPT ![p] = OkValue(path)]
    /\ pc' = [pc EXCEPT ![p] = "done"]
    /\ UNCHANGED <<db, data, readers, writer, batch, path, behind, queued, poisoned>>

\* db_ref.db.read()
AcquireRead(p) ==
    /\ pc[p] = "rdwait"
    /\ CanRead
    /\ IF poisoned
       THEN /\ res' = [res EXCEPT ![p] = lock_poisoned]
            /\ pc' = [pc EXCEPT ![p] = "done"]
            /\ behind' = [behind EXCEPT ![p] = {}]
            /\ UNCHANGED <<readers, queued>>
       ELSE /\ readers' = readers \cup {p}
            /\ pc' = [pc EXCEPT ![p] = "held"]
            /\ queued' = queued \cup WaitingClosers
            /\ UNCHANGED <<res, behind>>
    /\ UNCHANGED <<db, data, writer, call, batch, path, poisoned>>

\* A state check that lets every call through to its work.
CheckOpen_unchecked(p) ==
    /\ pc[p] = "held" /\ call[p].op # "is_open"
    /\ pc' = [pc EXCEPT ![p] = IF call[p].op \in BatchOps THEN "stage" ELSE "engine"]
    /\ UNCHANGED <<db, data, readers, writer, call, res, batch, path, behind, queued, poisoned>>

\* match db_guard.as_ref() { Some(db) => db, None => return already_closed }
CheckOpen(p) ==
    /\ pc[p] = "held" /\ call[p].op # "is_open"
    /\ IF db = None
       THEN /\ res' = [res EXCEPT ![p] = already_closed]
            /\ pc' = [pc EXCEPT ![p] = "drop"]
       ELSE /\ res' = res
            /\ pc' = [pc EXCEPT ![p] =
                        IF call[p].op \in BatchOps THEN "stage" ELSE "engine"]
    /\ UNCHANGED <<db, data, readers, writer, call, batch, path, behind, queued, poisoned>>

\* An is_open that reports the state the handle was created in.
is_some_stale(dbv) == <<"true">>

\* db_guard.is_some(), returned as a bare boolean.
is_some(dbv) == <<IF dbv = None THEN "false" ELSE "true">>

\* Ok(db_guard.is_some())
IsSome(p) ==
    /\ pc[p] = "held" /\ call[p].op = "is_open"
    /\ res' = [res EXCEPT ![p] = is_some(db)]
    /\ pc' = [pc EXCEPT ![p] = "drop"]
    /\ UNCHANGED <<db, data, readers, writer, call, batch, path, behind, queued, poisoned>>

\* What get returns once it holds the engine: cf_handle, then db.get_cf.
get_result(d, cf, key, fail) ==
    IF cf_handle(cf_atom_to_name(cf)) = None THEN invalid_cf(cf)
    ELSE IF fail THEN get_failed
    ELSE LET r == get_cf(d, cf_handle(cf_atom_to_name(cf)), key) IN
         IF r[1] = "some" THEN OkValue(r[2]) ELSE not_found

\* An exists that reports true for every read that did not fail.
exists_result_any(d, cf, key, fail) ==
    IF cf_handle(cf_atom_to_name(cf)) = None THEN invalid_cf(cf)
    ELSE IF fail THEN get_failed
    ELSE OkBool(TRUE)

\* What exists returns once it holds the engine.
exists_result(d, cf, key, fail) ==
    IF cf_handle(cf_atom_to_name(cf)) = None THEN invalid_cf(cf)
    ELSE IF fail THEN get_failed
    ELSE LET r == get_cf(d, cf_handle(cf_atom_to_name(cf)), key) IN
         IF r[1] = "some" THEN OkBool(TRUE) ELSE OkBool(FALSE)

\* A put whose write reaches the engine although it reports a failure.
put_outcome_torn(d, cf, key, value, fail) ==
    IF cf_handle(cf_atom_to_name(cf)) = None THEN [res |-> invalid_cf(cf), data |-> d]
    ELSE [res |-> IF fail THEN put_failed ELSE Ok,
          data |-> put_cf(d, cf_handle(cf_atom_to_name(cf)), key, value)]

\* The outcome of put once it holds the engine: the result and the contents.
put_outcome(d, cf, key, value, fail) ==
    IF cf_handle(cf_atom_to_name(cf)) = None THEN [res |-> invalid_cf(cf), data |-> d]
    ELSE IF fail THEN [res |-> put_failed, data |-> d]
    ELSE [res |-> Ok, data |-> put_cf(d, cf_handle(cf_atom_to_name(cf)), key, value)]

\* A delete that checks presence first and reports an absent key.
delete_outcome_checked(d, cf, key, fail) ==
    IF cf_handle(cf_atom_to_name(cf)) = None THEN [res |-> invalid_cf(cf), data |-> d]
    ELSE IF fail THEN [res |-> delete_failed, data |-> d]
    ELSE IF key \notin DOMAIN d[cf] THEN [res |-> not_found, data |-> d]
    ELSE [res |-> Ok, data |-> delete_cf(d, cf_handle(cf_atom_to_name(cf)), key)]

\* The outcome of delete once it holds the engine.
delete_outcome(d, cf, key, fail) ==
    IF cf_handle(cf_atom_to_name(cf)) = None THEN [res |-> invalid_cf(cf), data |-> d]
    ELSE IF fail THEN [res |-> delete_failed, data |-> d]
    ELSE [res |-> Ok, data |-> delete_cf(d, cf_handle(cf_atom_to_name(cf)), key)]

\* A commit that issues the operations one by one and stops at the failure.
write_outcome_partial(d, b, fail) ==
    IF fail THEN [res |-> batch_failed, data |-> write(d, IF Len(b) = 0 THEN b ELSE SubSeq(b, 1, 1))]
    ELSE [res |-> Ok, data |-> write(d, b)]

\* The outcome of db.write(batch).
write_outcome(d, b, fail) ==
    IF fail THEN [res |-> batch_failed, data |-> d]
    ELSE [res |-> Ok, data |-> write(d, b)]

GetCf(p) ==
    /\ pc[p] = "engine" /\ call[p].op = "get"
    /\ \E fail \in BOOLEAN :
         res' = [res EXCEPT ![p] = get_result(data, call[p].cf, call[p].key, fail)]
    /\ pc' = [pc EXCEPT ![p] = "drop"]
    /\ UNCHANGED <<db, data, readers, writer, call, batch, path, behind, queued, poisoned>>

ExistsCf(p) ==
    /\ pc[p] = "engine" /\ call[p].op = "exists"
    /\ \E fail \in BOOLEAN :
         res' = [res EXCEPT ![p] = exists_result(data, call[p].cf, call[p].key, fail)]
    /\ pc' = [pc EXCEPT ![p] = "drop"]
    /\ UNCHANGED <<db, data, readers, writer, call, batch, path, behind, queued, poisoned>>

PutCf(p) ==
    /\ pc[p] = "engine" /\ call[p].op = "put"
    /\ \E fail \in BOOLEAN :
         LET o == put_outcome(data, call[p].cf, call[p].key, call[p].val, fail) IN
         /\ res' = [res EXCEPT ![p] = o.res]
         /\ data' = o.data
    /\ pc' = [pc EXCEPT ![p] = "drop"]
    /\ UNCHANGED <<db, readers, writer, call, batch, path, behind, queued, poisoned>>

DeleteCf(p) ==
    /\ pc[p] = "engine" /\ call[p].op = "delete"
    /\ \E fail \in BOOLEAN :
         LET o == delete_outcome(data, call[p].cf, call[p].key, fail) IN
         /\ res' = [res EXCEPT ![p] = o.res]
         /\ data' = o.data
    /\ pc' = [pc EXCEPT ![p] = "drop"]
    /\ UNCHANGED <<db, readers, writer, call, batch, path, behind, queued, poisoned>>

\* let mut batch = WriteBatch::default(); the decoding of the list; the loop.
Stage(p) ==
    /\ pc[p] = "stage"
    /\ LET s == stage(call[p].op, call[p].ops) IN
       IF s.err # NoResult
       THEN /\ res' = [res EXCEPT ![p] = s.err]
            /\ batch' = batch
            /\ pc' = [pc EXCEPT ![p] = "drop"]
       ELSE /\ res' = res
            /\ batch' = [batch EXCEPT ![p] = s.batch]
            /\ pc' = [pc EXCEPT ![p] = "commit"]
    /\ UNCHANGED <<db, data, readers, writer, call, path, behind, queued, poisoned>>

\* match db.write(batch) { ... }
Write(p) ==
    /\ pc[p] = "commit"
    /\ \E fail \in BOOLEAN :
         LET o == write_outcome(data, batch[p], fail) IN
         /\ res' = [res EXCEPT ![p] = o.res]
         /\ data' = o.data
    /\ batch' = [batch EXCEPT ![p] = <<>>]
    /\ pc' = [pc EXCEPT ![p] = "drop"]
    /\ UNCHANGED <<db, readers, writer, call, path, behind, queued, poisoned>>

\* The read guard is dropped as the NIF returns.
DropRead(p) ==
    /\ pc[p] = "drop"
    /\ readers' = readers \ {p}
    /\ pc' = [pc EXCEPT ![p] = "done"]
    /\ behind' = [behind EXCEPT ![p] = {}]
    /\ UNCHANGED <<db, data, writer, call, res, batch, path, queued, poisoned>>

\* db_ref.db.write()
AcquireWrite(p) ==
    /\ pc[p] = "wrwait"
    /\ CanWrite
    /\ behind' = [q \in Procs |-> behind[q] \ {p}]
    /\ IF poisoned
       THEN /\ res' = [res EXCEPT ![p] = lock_poisoned]
            /\ pc' = [pc EXCEPT ![p] = "done"]
            /\ queued' = queued \ {p}
            /\ UNCHANGED writer
       ELSE /\ writer' = writer \cup {p}
            /\ pc' = [pc EXCEPT ![p] = "wheld"]
            /\ queued' = (queued \ {p}) \cup (WaitingClosers \ {p})
            /\ UNCHANGED res
    /\ UNCHANGED <<db, data, readers, call, batch, path, poisoned>>

\* A close that reports Ok whatever the state.
close_outcome_silent(dbv) == [res |-> Ok, db |-> None]

\* A close that puts an engine back when it finds none.
close_outcome_reopen(dbv) ==
    IF dbv = None THEN [res |-> already_closed, db |-> "Some"]
    ELSE [res |-> Ok, db |-> None]

\* A close that reports Ok and leaves the engine in place.
close_outcome_keep(dbv) ==
    [res |-> IF dbv = None THEN already_closed ELSE Ok, db |-> dbv]

\* if db_guard.is_none() { return already_closed }  *db_guard = None;  Ok
close_outcome(dbv) ==
    IF dbv = None THEN [res |-> already_closed, db |-> dbv]
    ELSE [res |-> Ok, db |-> None]

CloseDb(p) ==
    /\ pc[p] = "wheld"
    /\ res' = [res EXCEPT ![p] = close_outcome(db).res]
    /\ db' = close_outcome(db).db
    /\ pc' = [pc EXCEPT ![p] = "wdrop"]
    /\ UNCHANGED <<data, readers, writer, call, batch, path, behind, queued, poisoned>>

\* The write guard is dropped as close returns.
DropWrite(p) ==
    /\ pc[p] = "wdrop"
    /\ writer' = writer \ {p}
    /\ pc' = [pc EXCEPT ![p] = "done"]
    /\ UNCHANGED <<db, data, readers, call, res, batch, path, behind, queued, poisoned>>

\* A call panics while it holds the read guard: the unwinding drops the guard,
\* the NIF raises, and a read guard does not poison the lock.
PanicRead(p) ==
    /\ pc[p] \in {"held", "engine", "stage", "commit", "drop"}
    /\ readers' = readers \ {p}
    /\ res' = [res EXCEPT ![p] = nif_panicked]
    /\ batch' = [batch EXCEPT ![p] = <<>>]
    /\ behind' = [behind EXCEPT ![p] = {}]
    /\ pc' = [pc EXCEPT ![p] = "done"]
    /\ UNCHANGED <<db, data, writer, call, path, poisoned, queued>>

\* close panics while it holds the write guard: the dropped guard poisons the
\* lock.
PanicWrite(p) ==
    /\ pc[p] \in {"wheld", "wdrop"}
    /\ writer' = writer \ {p}
    /\ poisoned' = TRUE
    /\ res' = [res EXCEPT ![p] = nif_panicked]
    /\ pc' = [pc EXCEPT ![p] = "done"]
    /\ UNCHANGED <<db, data, readers, call, batch, path, behind, queued>>

\* The caller has the result and is free to call again.
Return(p) ==
    /\ pc[p] = "done"
    /\ pc' = [pc EXCEPT ![p] = "ret"]
    /\ call' = [call EXCEPT ![p] = NoCall]
    /\ res' = [res EXCEPT ![p] = NoResult]
    /\ UNCHANGED <<db, data, readers, writer, batch, path, behind, queued, poisoned>>

(***************************************************************************)
(* Inputs.                                                                 *)
(***************************************************************************)
Put3(cf, k, v) == Tuple(<<Atom(cf), Bin(k), Bin(v)>>)
Put4(cf, k, v) == Tuple(<<Atom("put"), Atom(cf), Bin(k), Bin(v)>>)
Del2(cf, k)    == Tuple(<<Atom(cf), Bin(k)>>)
Del3(cf, k)    == Tuple(<<Atom("delete"), Atom(cf), Bin(k)>>)

SeqsUpTo(S, n) == UNION {[1..m -> S] : m \in 0..n}
Lists(S) == {List(s) : s \in SeqsUpTo(S, MaxBatchLen)} \cup {Atom("nolist")}

\* Concurrent callers: few inputs, every interleaving.
ConcIn ==
    [cfs  |-> {"spo", "bogus"},
     keys |-> {"a"},
     puts |-> {<<"spo", "a", "1">>, <<"bogus", "a", "1">>},
     wb   |-> {List(<<Put3("spo", "a", "2"), Put3("pos", "a", "2")>>)},
     dl   |-> {List(<<Del2("spo", "a"), Del2("pos", "a")>>)},
     mb   |-> {List(<<Put4("spo", "a", "3"), Del3("pos", "a")>>),
               List(<<Put4("spo", "a", "3"), Del3("bogus", "a")>>)}]

\* One caller: every operation list up to MaxBatchLen over these items.
SeqPuts == {<<"spo", "a", "1">>, <<"spo", "a", "3">>, <<"pos", "a", "2">>,
            <<"osp", "a", "3">>, <<"spo", "b", "2">>, <<"bogus", "a", "1">>}
SeqDels == {<<"spo", "a">>, <<"pos", "a">>, <<"spo", "b">>, <<"bogus", "a">>}

WriteItems ==
    {Put3(a[1], a[2], a[3]) : a \in SeqPuts} \cup
    {Put4("spo", "a", "1"),
     Tuple(<<Atom("delete"), Atom("spo"), Bin("a"), Bin("1")>>),
     Del3("spo", "a"),
     Del2("spo", "a")}
DeleteItems ==
    {Del2(a[1], a[2]) : a \in SeqDels} \cup {Put3("spo", "a", "1"), Atom("spo")}
MixedItems ==
    {Put4(a[1], a[2], a[3]) : a \in SeqPuts} \cup
    {Del3(a[1], a[2]) : a \in SeqDels} \cup
    {Tuple(<<>>),
     Tuple(<<Atom("frob"), Atom("spo"), Bin("a")>>),
     Tuple(<<Atom("put"), Atom("spo"), Bin("a")>>),
     Bin("a")}

SeqIn ==
    [cfs  |-> {"spo", "pos", "osp", "bogus"},
     keys |-> {"a", "b"},
     puts |-> SeqPuts,
     wb   |-> Lists(WriteItems),
     dl   |-> Lists(DeleteItems),
     mb   |-> Lists(MixedItems)]

(***************************************************************************)
(* Specifications.                                                         *)
(***************************************************************************)
Step(p, In) ==
    \/ get(p, In) \/ put(p, In) \/ delete(p, In) \/ exists(p, In)
    \/ write_batch(p, In) \/ delete_batch(p, In) \/ mixed_batch(p, In)
    \/ close(p) \/ is_open(p) \/ get_path(p)
    \/ AcquireRead(p) \/ CheckOpen(p) \/ IsSome(p)
    \/ GetCf(p) \/ ExistsCf(p) \/ PutCf(p) \/ DeleteCf(p)
    \/ Stage(p) \/ Write(p) \/ DropRead(p)
    \/ AcquireWrite(p) \/ CloseDb(p) \/ DropWrite(p)
    \/ Return(p)

\* Any number of callers on one store.
Next == \E p \in Callers : Step(p, ConcIn)
Spec == Init /\ [][Next]_vars

\* One caller, one call at a time.
NextSeq == Step(1, SeqIn)
SpecSeq == Init /\ [][NextSeq]_vars

\* Callers whose calls may panic while they hold the guard.
NextPanic == \E p \in Callers : Step(p, ConcIn) \/ PanicRead(p) \/ PanicWrite(p)
SpecPanic == Init /\ [][NextPanic]_vars

\* The steps of a call between its entry and its return.
Run(p) ==
    \/ AcquireRead(p) \/ CheckOpen(p) \/ IsSome(p)
    \/ GetCf(p) \/ ExistsCf(p) \/ PutCf(p) \/ DeleteCf(p)
    \/ Stage(p) \/ Write(p) \/ DropRead(p)
    \/ AcquireWrite(p) \/ CloseDb(p) \/ DropWrite(p)

\* Callers that need not stop calling: a point operation, a batch and close.
LiveIn ==
    [cfs  |-> {"spo"},
     keys |-> {"a"},
     puts |-> {},
     wb   |-> {},
     dl   |-> {},
     mb   |-> {List(<<Del3("spo", "a")>>)}]

StepFair(p) ==
    \/ get(p, LiveIn) \/ mixed_batch(p, LiveIn) \/ close(p)
    \/ AcquireRead(p) \/ CheckOpen(p)
    \/ GetCf(p) \/ Stage(p) \/ Write(p) \/ DropRead(p)
    \/ AcquireWrite(p) \/ CloseDb(p) \/ DropWrite(p)
    \/ Return(p)

\* Fair scheduling: a call that can take its next step for good takes it, and
\* a call that waits for the guard gets it if it could take it again and again.
\* The lock promises no order among the calls that wait for it.
NextFair == \E p \in Procs : StepFair(p)
SpecFair ==
    /\ Init /\ [][NextFair]_vars
    /\ \A p \in Procs :
        WF_vars(Run(p)) /\ SF_vars(AcquireRead(p)) /\ SF_vars(AcquireWrite(p))

(***************************************************************************)
(* The contract, stated over what a caller can observe.                    *)
(***************************************************************************)
FixedSet == {"id2str", "str2id", "spo", "pos", "osp", "derived"}
AllKeys == {"a", "b"}

StoreClosed == already_closed
AlreadyClosed == already_closed
Found(v) == <<"ok", v>>
NotFound == <<"not_found">>
IsInvalidColumnFamily(r) == Len(r) = 3 /\ r[1] = "error" /\ r[2] = "invalid_cf"
IsInvalidOperation(r) == Len(r) >= 2 /\ r[1] = "error" /\ r[2] = "invalid_operation"
IsError(r) == Len(r) >= 1 /\ r[1] = "error"

\* What a get of (cf, k) on contents d shows when the engine does not fail.
Observe(d, cf, k) == IF k \in DOMAIN d[cf] THEN Found(d[cf][k]) ELSE NotFound
View(d) == [c \in FixedSet \X AllKeys |-> Observe(d, c[1], c[2])]

\* The shapes an entry of an operation list may have.
IsPut3(e) ==
    /\ e.t = "tuple" /\ Len(e.el) = 3
    /\ e.el[1].t = "atom" /\ e.el[2].t = "bin" /\ e.el[3].t = "bin"
IsPut4(e) ==
    /\ e.t = "tuple" /\ Len(e.el) = 4
    /\ e.el[1] = Atom("put")
    /\ e.el[2].t = "atom" /\ e.el[3].t = "bin" /\ e.el[4].t = "bin"
IsDel2(e) ==
    /\ e.t = "tuple" /\ Len(e.el) = 2
    /\ e.el[1].t = "atom" /\ e.el[2].t = "bin"
IsDel3(e) ==
    /\ e.t = "tuple" /\ Len(e.el) = 3
    /\ e.el[1] = Atom("delete")
    /\ e.el[2].t = "atom" /\ e.el[3].t = "bin"

\* An entry that describes a Put or a Delete in the shape the batch kind takes.
Shaped(op, e) ==
    IF op = "write_batch" THEN IsPut3(e) \/ IsPut4(e)
    ELSE IF op = "delete_batch" THEN IsDel2(e)
    ELSE IsPut4(e) \/ IsDel3(e)

\* The Operation a shaped entry describes.
EntryOp(op, e) ==
    IF op = "delete_batch"
    THEN [op |-> "delete", cf |-> e.el[1].v, key |-> e.el[2].v, val |-> ""]
    ELSE IF op = "write_batch" /\ Len(e.el) = 3
    THEN [op |-> "put", cf |-> e.el[1].v, key |-> e.el[2].v, val |-> e.el[3].v]
    ELSE IF Len(e.el) = 4
    THEN [op |-> "put", cf |-> e.el[2].v, key |-> e.el[3].v, val |-> e.el[4].v]
    ELSE [op |-> "delete", cf |-> e.el[2].v, key |-> e.el[3].v, val |-> ""]

ValidEntry(op, e) == Shaped(op, e) /\ EntryOp(op, e).cf \in FixedSet
BadFamilyEntry(op, e) == Shaped(op, e) /\ EntryOp(op, e).cf \notin FixedSet

\* A tuple whose arity or tag fits no operation of the batch kind.  (An entry
\* that is no tuple, or whose fields are not atoms and binaries where the
\* arity wants them, is refused by the term decoding with its own error.)
MalformedEntry(op, e) ==
    /\ e.t = "tuple"
    /\ IF op = "write_batch"
       THEN \/ Len(e.el) \notin {3, 4}
            \/ /\ Len(e.el) = 4
               /\ e.el[1].t = "atom" /\ e.el[1].v # "put"
               /\ e.el[2].t = "atom" /\ e.el[3].t = "bin" /\ e.el[4].t = "bin"
       ELSE IF op = "delete_batch"
       THEN Len(e.el) # 2
       ELSE \/ Len(e.el) = 0
            \/ /\ e.el[1].t = "atom"
               /\ \/ e.el[1].v \notin {"put", "delete"}
                  \/ e.el[1].v = "put" /\ Len(e.el) # 4
                  \/ e.el[1].v = "delete" /\ Len(e.el) # 3

IsBatch(c) == c.op \in BatchOps /\ c.ops.t = "list"
Entries(c) == c.ops.el
BadEntries(c) == {i \in 1..Len(Entries(c)) : ~ValidEntry(c.op, Entries(c)[i])}
IntendedOps(c) == [i \in 1..Len(Entries(c)) |-> EntryOp(c.op, Entries(c)[i])]

\* The value the last Put or Delete of ops for (cf, k) leaves, old if none does.
LastWriter(ops, cf, k, old) ==
    LET idx == {i \in 1..Len(ops) : ops[i].cf = cf /\ ops[i].key = k} IN
    IF idx = {} THEN old
    ELSE LET m == CHOOSE i \in idx : \A j \in idx : j <= i IN
         IF ops[m].op = "put" THEN Found(ops[m].val) ELSE NotFound

(***************************************************************************)
(* C1  No use after close.  The write guard of close is never held while   *)
(* a call holds the read guard, at most one call holds the write guard,    *)
(* and a call that is about to read, write or commit holds the read guard  *)
(* of a store that is Open.                                                *)
(***************************************************************************)
C1_NoUseAfterClose ==
    /\ Cardinality(writer) <= 1
    /\ writer # {} => readers = {}
    /\ \A p \in Procs :
        /\ pc[p] \in {"wheld", "wdrop"} <=> p \in writer
        /\ pc[p] \in {"engine", "stage", "commit"} => p \in readers /\ db # None

\* A close waits for the guard while another call is inside the engine.
C1_Witness ==
    \E p, q \in Procs :
        /\ pc[p] = "wrwait"
        /\ pc[q] \in {"engine", "commit"}

(***************************************************************************)
(* C2  A batch on an Open store whose list holds an entry with a family    *)
(* outside the fixed set, or a malformed entry, never reaches the commit   *)
(* and never changes what any get shows; when that entry is the only bad   *)
(* one, the call returns InvalidColumnFamily with the family, respectively *)
(* InvalidOperation.                                                       *)
(***************************************************************************)
C2_Rejected(c, r) ==
    /\ IsError(r) /\ r # batch_failed
    /\ \A i \in BadEntries(c) :
        BadEntries(c) = {i} =>
            /\ BadFamilyEntry(c.op, Entries(c)[i]) =>
                   r = invalid_cf(EntryOp(c.op, Entries(c)[i]).cf)
            /\ MalformedEntry(c.op, Entries(c)[i]) => IsInvalidOperation(r)

C2_InvalidBatchWritesNothing ==
    /\ [](\A p \in Procs :
            IsBatch(call[p]) /\ BadEntries(call[p]) # {} =>
                /\ pc[p] # "commit"
                /\ pc[p] = "done" /\ db # None => C2_Rejected(call[p], res[p]))
    /\ [][\A p \in Procs :
            IsBatch(call[p]) /\ BadEntries(call[p]) # {} => View(data') = View(data)]_vars

\* A valid put precedes the entry with the unknown family; it is not visible.
C2_Witness ==
    /\ pc[1] = "done"
    /\ call[1] = BatchCall("mixed_batch",
                     List(<<Put4("spo", "a", "1"), Put4("bogus", "a", "1")>>))
    /\ res[1] = invalid_cf("bogus")
    /\ Observe(data, "spo", "a") = NotFound

(***************************************************************************)
(* C3  A batch commit is all or nothing for every observer: the step that  *)
(* commits a batch either leaves every get as it was or leaves every       *)
(* (family, key) the batch names at the value its last operation for it    *)
(* gives, and no other step of a batch call changes what a get shows.      *)
(***************************************************************************)
C3_AllOrNothing ==
    [][\A p \in Procs :
        call[p].op \in BatchOps /\ pc'[p] # pc[p] =>
            \/ data' = data
            \/ View(data') = View(data)
            \/ /\ pc[p] = "commit"
               /\ \A c \in FixedSet \X AllKeys :
                    Observe(data', c[1], c[2]) =
                        LastWriter(IntendedOps(call[p]), c[1], c[2],
                                   Observe(data, c[1], c[2]))]_vars

\* A batch has committed while another caller's get holds the guard.
C3_Witness ==
    \E p, q \in Procs :
        /\ pc[p] = "drop" /\ call[p].op = "write_batch" /\ res[p] = Ok
        /\ pc[q] = "engine" /\ call[q].op \in {"get", "exists"}
        /\ Observe(data, "spo", "a") = Found("2")
        /\ Observe(data, "pos", "a") = Found("2")

GivenUnknownFamily(c) ==
    \/ c.op \in PointOps /\ c.cf \notin FixedSet
    \/ /\ IsBatch(c)
       /\ \A i \in 1..Len(Entries(c)) : Shaped(c.op, Entries(c)[i])
       /\ \E i \in 1..Len(Entries(c)) : BadFamilyEntry(c.op, Entries(c)[i])

C5_Original ==
    \A p \in Procs :
        pc[p] = "done" /\ GivenUnknownFamily(call[p]) =>
            IsInvalidColumnFamily(res[p])

(***************************************************************************)
(* C5  As amended: a point operation given a family outside the fixed set  *)
(* returns InvalidColumnFamily with that family whether the store is Open  *)
(* or Closed; a batch operation given one returns InvalidColumnFamily with *)
(* a family outside the fixed set on an Open store and StoreClosed on a    *)
(* Closed store.                                                           *)
(***************************************************************************)
C5_FixedSet ==
    \A p \in Procs :
        pc[p] = "done" /\ GivenUnknownFamily(call[p]) =>
            IF call[p].op \in PointOps THEN res[p] = invalid_cf(call[p].cf)
            ELSE IF db = None THEN res[p] = StoreClosed
            ELSE IsInvalidColumnFamily(res[p]) /\ res[p][3] \notin FixedSet

\* A put on an unknown family of a Closed store.
C5_Witness ==
    /\ pc[1] = "done" /\ db = None
    /\ call[1].op = "put" /\ call[1].cf = "bogus"
    /\ res[1] = invalid_cf("bogus")

(***************************************************************************)
(* C6  Put/get round trip: once a put(f, k, v) has returned Ok, a get of   *)
(* (f, k) shows Found(v), whatever (f, k) held before; and a get that      *)
(* returns a value or NotFound returns what the store holds.               *)
(***************************************************************************)
C6_PutGet ==
    \A p \in Procs :
        pc[p] = "done" =>
            /\ call[p].op = "put" /\ res[p] = Ok =>
                   get_result(data, call[p].cf, call[p].key, FALSE) = Found(call[p].val)
            /\ call[p].op = "get" /\ ~IsError(res[p]) =>
                   res[p] = Observe(data, call[p].cf, call[p].key)

\* A put has overwritten (spo, a) and the next get returned the new value.
C6_Witness ==
    /\ pc[1] = "done" /\ call[1].op = "get"
    /\ call[1].cf = "spo" /\ call[1].key = "a"
    /\ res[1] = Found("3")

(***************************************************************************)
(* C7  On an Open store a delete(f, k) on a family of the fixed set        *)
(* returns Ok unless the engine fails, and after it a get of (f, k) shows  *)
(* NotFound.                                                               *)
(***************************************************************************)
C7_DeleteGet ==
    \A p \in Procs :
        pc[p] = "done" /\ call[p].op = "delete" /\ call[p].cf \in FixedSet
        /\ db # None =>
            /\ res[p] \in {Ok, delete_failed}
            /\ res[p] = Ok =>
                   get_result(data, call[p].cf, call[p].key, FALSE) = NotFound

\* No call ever writes (pos, b): the delete of an absent key returned Ok.
C7_Witness ==
    /\ pc[1] = "done" /\ call[1].op = "delete"
    /\ call[1].cf = "pos" /\ call[1].key = "b"
    /\ res[1] = Ok

(***************************************************************************)
(* C8  exists agrees with get in every reachable state: on every family    *)
(* and key, and for either outcome of the engine read, exists returns true *)
(* iff get returns Found, false iff get returns NotFound, and the same     *)
(* error otherwise; and an exists call returns what a get call of the same *)
(* arguments returns at each stage of the precondition chain.              *)
(***************************************************************************)
C8_ExistsAgrees ==
    /\ \A cf \in FixedSet \cup {"bogus"}, k \in AllKeys, fail \in BOOLEAN :
        LET g == get_result(data, cf, k, fail)
            e == exists_result(data, cf, k, fail) IN
        /\ e = OkBool(TRUE) <=> (Len(g) = 2 /\ g[1] = "ok")
        /\ e = OkBool(FALSE) <=> g = NotFound
        /\ IsError(e) <=> IsError(g)
        /\ IsError(e) => e = g
    /\ \A p \in Procs :
        pc[p] = "done" /\ call[p].op \in {"get", "exists"} =>
            IF call[p].cf \notin FixedSet THEN res[p] = invalid_cf(call[p].cf)
            ELSE IF db = None THEN res[p] = StoreClosed
            ELSE IF IsError(res[p]) THEN res[p] = get_failed
            ELSE IF call[p].op = "get"
                 THEN res[p] = Observe(data, call[p].cf, call[p].key)
                 ELSE res[p] = OkBool(Observe(data, call[p].cf, call[p].key) # NotFound)

\* exists returned false for a key while the family holds another key.
C8_Witness ==
    /\ pc[1] = "done" /\ call[1].op = "exists"
    /\ call[1].cf = "spo" /\ call[1].key = "a"
    /\ res[1] = OkBool(FALSE)
    /\ Observe(data, "spo", "b") = Found("2")

(***************************************************************************)
(* C9  Closed is terminal: no step of any call takes a Closed store back   *)
(* to Open, and the only step that changes the state is the one of close   *)
(* that takes Open to Closed.                                              *)
(***************************************************************************)
C9_ClosedTerminal ==
    [][/\ db = None => db' = None
       /\ db' # db => \E p \in Procs : pc[p] = "wheld" /\ call[p].op = "close"]_vars

\* The store is Closed and calls of every kind have been made on it since.
C9_Witness ==
    /\ db = None
    /\ \E p, q \in Procs :
        /\ pc[p] = "done" /\ call[p].op = "close" /\ res[p] = AlreadyClosed
        /\ pc[q] = "done" /\ call[q].op = "is_open" /\ res[q] = <<"false">>

(***************************************************************************)
(* C10  A batch that returns Ok leaves every (family, key) at the value    *)
(* of the last Put or Delete for it in the list, and every (family, key)   *)
(* the list does not name as it was.                                       *)
(***************************************************************************)
C10_BatchOrder ==
    [][\A p \in Procs :
        pc[p] = "commit" /\ pc'[p] = "drop" /\ res'[p] = Ok =>
            \A c \in FixedSet \X AllKeys :
                Observe(data', c[1], c[2]) =
                    LastWriter(IntendedOps(call[p]), c[1], c[2],
                               Observe(data, c[1], c[2]))]_vars

\* put(spo,a,1), put(pos,a,2), mixed_batch([Delete(spo,a), Put(osp,a,3)]).
C10_Witness ==
    /\ pc[1] = "done"
    /\ call[1] = BatchCall("mixed_batch",
                     List(<<Del3("spo", "a"), Put4("osp", "a", "3")>>))
    /\ res[1] = Ok
    /\ Observe(data, "spo", "a") = NotFound
    /\ Observe(data, "pos", "a") = Found("2")
    /\ Observe(data, "osp", "a") = Found("3")

(***************************************************************************)
(* C11  A batch operation given an empty list on an Open store returns Ok  *)
(* (batch_failed when the engine refuses the commit) and no step of the    *)
(* call changes the state of the store or what any get shows.              *)
(***************************************************************************)
C11_EmptyBatch ==
    /\ [](\A p \in Procs :
            pc[p] = "done" /\ IsBatch(call[p]) /\ Entries(call[p]) = <<>>
            /\ db # None => res[p] \in {Ok, batch_failed})
    /\ [][\A p \in Procs :
            IsBatch(call[p]) /\ Entries(call[p]) = <<>> /\ pc'[p] # pc[p] =>
                db' = db /\ View(data') = View(data)]_vars

\* An empty write_batch has returned Ok on a store that holds a value.
C11_Witness ==
    /\ pc[1] = "done" /\ db # None
    /\ call[1] = BatchCall("write_batch", List(<<>>))
    /\ res[1] = Ok
    /\ Observe(data, "spo", "a") = Found("1")

(***************************************************************************)
(* C12  The batch shapes agree: a write_batch on a list of {cf, k, v}      *)
(* stages the same operations, or ends with the same error, as a           *)
(* mixed_batch on the same puts as {put, cf, k, v}; a delete_batch on a    *)
(* list of {cf, k} does so as a mixed_batch on {delete, cf, k}; and the    *)
(* commit of the two gives the same result and the same contents, whether  *)
(* the families are of the fixed set or not.                               *)
(***************************************************************************)
PlainShaped(c) ==
    /\ IsBatch(c) /\ c.op \in {"write_batch", "delete_batch"}
    /\ \A i \in 1..Len(Entries(c)) :
        IF c.op = "write_batch" THEN IsPut3(Entries(c)[i]) ELSE IsDel2(Entries(c)[i])

\* The entries of a plain list in the tagged form mixed_batch takes.
Tagged(c) ==
    List([i \in 1..Len(Entries(c)) |->
            LET e == Entries(c)[i] IN
            IF c.op = "write_batch"
            THEN Tuple(<<Atom("put"), e.el[1], e.el[2], e.el[3]>>)
            ELSE Tuple(<<Atom("delete"), e.el[1], e.el[2]>>)])

C12_ShapesAgree ==
    \A p \in Procs :
        pc[p] = "stage" /\ PlainShaped(call[p]) =>
            LET plain == stage(call[p].op, call[p].ops)
                mixed == stage("mixed_batch", Tagged(call[p])) IN
            /\ plain = mixed
            /\ \A fail \in BOOLEAN :
                write_outcome(data, plain.batch, fail) =
                    write_outcome(data, mixed.batch, fail)

\* A delete_batch is about to stage a valid delete and one of an unknown family.
C12_Witness ==
    /\ pc[1] = "stage"
    /\ call[1] = BatchCall("delete_batch",
                     List(<<Del2("spo", "a"), Del2("bogus", "a")>>))
    /\ Observe(data, "spo", "a") = Found("1")

(***************************************************************************)
(* C13  As claimed: a call that asked for the shared guard while a close   *)
(* had asked for the exclusive guard and was waiting for it does not reach *)
(* the engine before that close has made the store Closed.                 *)
(***************************************************************************)
C13_Original ==
    \A p \in Procs : pc[p] \in {"engine", "commit"} => behind[p] = {}

(***************************************************************************)
(* C14  As claimed: under fair scheduling every call that has been made    *)
(* returns, a close included, and a call that finds the store Closed       *)
(* returns StoreClosed.                                                    *)
(***************************************************************************)
C14_Original ==
    /\ \A p \in Procs : (pc[p] \notin {"ret", "done"}) ~> (pc[p] = "done")
    /\ [][\A p \in Procs :
            pc[p] = "held" /\ pc'[p] # "held" /\ db = None
            /\ call[p].op \in PointOps \cup BatchOps => res'[p] = StoreClosed]_vars

(***************************************************************************)
(* C15  As claimed: once a call has panicked while it held the guard and   *)
(* poisoned the lock, every call that returns fails (or raises) and none   *)
(* reaches the engine.                                                     *)
(***************************************************************************)
C15_Original ==
    /\ [](poisoned => \A p \in Procs : pc[p] \notin {"engine", "commit"})
    /\ [][\A p \in Procs :
            poisoned /\ pc[p] # "done" /\ pc'[p] = "done" =>
                IsError(res'[p]) \/ res'[p] = nif_panicked]_vars

(***************************************************************************)
(* C16  is_open and get_path are pure reads valid in both states: is_open  *)
(* returns true when the store is Open and false when it is Closed,        *)
(* get_path returns the path the store was opened with, before and after   *)
(* close, and no step of either call changes the state, the contents or    *)
(* the path.                                                               *)
(***************************************************************************)
C16_PureReads ==
    /\ [](path = "/tmp/s")
    /\ [](\A p \in Procs :
            pc[p] = "done" /\ call[p].op = "get_path" => res[p] = <<"ok", "/tmp/s">>)
    /\ [][\A p \in Procs :
            /\ call[p].op = "is_open" /\ pc[p] = "held" /\ pc'[p] # "held" =>
                   res'[p] = IF db = None THEN <<"false">> ELSE <<"true">>
            /\ call'[p].op \in {"is_open", "get_path"} /\ pc'[p] # pc[p] =>
                   db' = db /\ data' = data /\ path' = path]_vars

\* After a close, is_open has returned false and get_path the path.
C16_Witness ==
    /\ db = None
    /\ \E p, q \in Procs :
        /\ pc[p] = "done" /\ call[p].op = "is_open" /\ res[p] = <<"false">>
        /\ pc[q] = "done" /\ call[q].op = "get_path" /\ res[q] = <<"ok", "/tmp/s">>

(***************************************************************************)
(* C17  A batch operation takes the shared guard and checks the state      *)
(* once, before it looks at its operation list, and keeps the guard until  *)
(* it returns: on a Closed store the check ends the call with StoreClosed  *)
(* whatever the list holds, and while a batch validates, stages or commits *)
(* the store is Open, the batch holds the shared guard, no close holds the *)
(* exclusive guard and no step changes the state.                          *)
(***************************************************************************)
C17_CheckedOnce ==
    /\ [](\A p \in Procs :
            call[p].op \in BatchOps /\ pc[p] \in {"held", "stage", "commit", "drop"} =>
                p \in readers /\ writer = {})
    /\ [](\A p \in Procs :
            call[p].op \in BatchOps /\ pc[p] \in {"stage", "commit"} => db # None)
    /\ [][\A p \in Procs : call[p].op \in BatchOps =>
            /\ pc[p] = "held" /\ pc'[p] # "held" =>
                   IF db = None
                   THEN res'[p] = StoreClosed /\ pc'[p] = "drop" /\ data' = data
                   ELSE res'[p] = NoResult /\ pc'[p] = "stage"
            /\ pc[p] = "stage" => pc'[p] \in {"stage", "commit", "drop"}
            /\ pc[p] = "commit" => pc'[p] \in {"commit", "drop"}
            /\ pc[p] = "drop" => pc'[p] \in {"drop", "done"} /\ res'[p] = res[p]
            /\ pc[p] \in {"held", "stage", "commit", "drop"} => db' = db]_vars

\* A batch whose list holds a bad entry has returned StoreClosed on a Closed
\* store.
C17_Witness ==
    /\ db = None
    /\ \E p \in Procs :
        /\ pc[p] = "done" /\ call[p].op \in BatchOps
        /\ stage(call[p].op, call[p].ops).err # NoResult
        /\ res[p] = StoreClosed

(***************************************************************************)
(* C18  A batch on an Open store returns the error of its first bad entry  *)
(* in sequence order, whatever follows it: InvalidColumnFamily with the    *)
(* family of that entry when it names a family outside the fixed set,      *)
(* InvalidOperation (bare, or with the tag of that entry) when it is a     *)
(* tuple that fits no operation of the batch kind; the batch never reaches *)
(* the commit.                                                             *)
(***************************************************************************)
FirstBad(c) == CHOOSE i \in BadEntries(c) : \A j \in BadEntries(c) : i <= j

C18_ErrorOfEntry(op, e, r) ==
    /\ BadFamilyEntry(op, e) => r = invalid_cf(EntryOp(op, e).cf)
    /\ MalformedEntry(op, e) =>
           \/ r = invalid_operation
           \/ Len(e.el) >= 1 /\ r = invalid_operation_of(e.el[1].v)

C18_FirstBadEntry ==
    \A p \in Procs :
        IsBatch(call[p]) /\ BadEntries(call[p]) # {} =>
            /\ pc[p] # "commit"
            /\ pc[p] = "done" /\ db # None =>
                   C18_ErrorOfEntry(call[p].op,
                                    Entries(call[p])[FirstBad(call[p])], res[p])

\* A list whose first entry names an unknown family and whose second entry
\* carries an unknown tag has returned the error of the first.
C18_Witness ==
    \E p \in Procs :
        /\ pc[p] = "done" /\ db # None
        /\ IsBatch(call[p]) /\ BadEntries(call[p]) = {1, 2}
        /\ BadFamilyEntry(call[p].op, Entries(call[p])[1])
        /\ MalformedEntry(call[p].op, Entries(call[p])[2])
        /\ res[p] = invalid_cf(EntryOp(call[p].op, Entries(call[p])[1]).cf)

(***************************************************************************)
(* C19  No failure mutates observable state: the step in which a call      *)
(* gets an error as its result (StoreClosed, InvalidColumnFamily,          *)
(* GetFailed, PutFailed, DeleteFailed, InvalidOperation, BatchFailed)      *)
(* leaves the contents and the Open/Closed state as they were, so does     *)
(* every other step of a call that ends in an error, and the only steps    *)
(* that change the contents or the state are those that give their call    *)
(* the result Ok.                                                          *)
(***************************************************************************)
C19_FailureKeepsState ==
    [][/\ \A p \in Procs :
            IsError(res'[p]) /\ pc'[p] # pc[p] =>
                data' = data /\ db' = db
       /\ data' # data \/ db' # db =>
            \E p \in Procs : res[p] = NoResult /\ res'[p] = Ok]_vars

\* A batch that deletes a committed value has failed at the commit and the
\* value is still there.
C19_Witness ==
    \E p \in Procs :
        /\ pc[p] = "done" /\ res[p] = batch_failed
        /\ call[p] = BatchCall("mixed_batch", List(<<Del3("spo", "a")>>))
        /\ Observe(data, "spo", "a") = Found("1")

(***************************************************************************)
(* C20  Among concurrent close calls on one Open store exactly one returns *)
(* Ok and every other returns AlreadyClosed, and the engine is released    *)
(* once: a close gets Ok in exactly the step that takes the store from     *)
(* Open to Closed, a close that finds the store Closed gets AlreadyClosed, *)
(* a Closed store never becomes Open again, and no two close calls hold    *)
(* the result Ok at the same time.                                         *)
(***************************************************************************)
C20_OneCloseWins ==
    /\ [](Cardinality({p \in Procs : call[p].op = "close" /\ res[p] = Ok}) <= 1)
    /\ [](\A p \in Procs :
            call[p].op = "close" /\ pc[p] \in {"wdrop", "done"} =>
                /\ db = None
                /\ res[p] \in {Ok, AlreadyClosed})
    /\ [][/\ db = None => db' = None
          /\ \A p \in Procs :
                call[p].op = "close" /\ res[p] = NoResult /\ res'[p] # NoResult =>
                    /\ res'[p] = IF db # None THEN Ok ELSE AlreadyClosed
                    /\ db' = None
          /\ db' # db =>
                \E p \in Procs :
                    call[p].op = "close" /\ res[p] = NoResult /\ res'[p] = Ok]_vars

\* Two close calls have returned: one with Ok, the other with AlreadyClosed.
C20_Witness ==
    \E p, q \in Procs :
        /\ pc[p] = "done" /\ call[p].op = "close" /\ res[p] = Ok
        /\ pc[q] = "done" /\ call[q].op = "close" /\ res[q] = AlreadyClosed

(***************************************************************************)
(* C21  An operation that races with close has one of two outcomes,        *)
(* decided by the order of the guards.  While any operation holds the      *)
(* shared guard the state does not change, so an operation that got the    *)
(* guard on an Open store passes the state check, is never answered        *)
(* StoreClosed, and its write or whole batch is applied, on an Open store, *)
(* in the step that gives it Ok; an operation that got the guard on a      *)
(* Closed store is answered StoreClosed at the state check and changes     *)
(* nothing.  Ok is never returned for a write that was not applied, and    *)
(* the Open to Closed step never happens under a call that holds the       *)
(* guard.                                                                  *)
(***************************************************************************)
C21_Guarded(p) == call[p].op \in PointOps \cup BatchOps /\ p \in readers

C21_GuardOrder ==
    /\ [](\A p \in Procs :
            C21_Guarded(p) /\ pc[p] = "drop" =>
                IF db = None THEN res[p] = StoreClosed
                ELSE res[p] # StoreClosed /\ res[p] # NoResult)
    /\ [][/\ readers # {} => db' = db
          /\ \A p \in Procs : C21_Guarded(p) /\ pc'[p] # pc[p] =>
                /\ db = None => data' = data
                /\ res'[p] = Ok /\ res[p] = NoResult =>
                      /\ db # None
                      /\ call[p].op = "put" =>
                             Observe(data', call[p].cf, call[p].key) = Found(call[p].val)
                      /\ call[p].op = "delete" =>
                             Observe(data', call[p].cf, call[p].key) = NotFound
                      /\ call[p].op \in BatchOps =>
                             \A c \in FixedSet \X AllKeys :
                                Observe(data', c[1], c[2]) =
                                    LastWriter(IntendedOps(call[p]), c[1], c[2],
                                               Observe(data, c[1], c[2]))]_vars

\* A close that found the guard in use still waits while the put it raced
\* with has its write applied and its result Ok.
C21_Witness ==
    \E p, q \in Procs :
        /\ pc[q] = "wrwait" /\ q \in queued
        /\ pc[p] = "drop" /\ call[p].op = "put" /\ res[p] = Ok
        /\ db # None
        /\ Observe(data, call[p].cf, call[p].key) = Found(call[p].val)

(***************************************************************************)
(* C22  Frame of the point operations: no step of a put(f, k, v) or a      *)
(* delete(f, k) changes what a get shows for any entry other than (f, k),  *)
(* be it another key of f or any key, k included, of another family; the   *)
(* step that gives a put or delete Ok happens on an Open store; no step of *)
(* a get or an exists changes any entry; and no step of a point operation  *)
(* changes the Open/Closed state.                                          *)
(***************************************************************************)
C22_Frame ==
    [][\A p \in Procs :
        LET c == IF pc[p] = "ret" THEN call'[p] ELSE call[p] IN
        c.op \in PointOps /\ pc'[p] # pc[p] =>
            /\ db' = db
            /\ c.op \in {"get", "exists"} => data' = data
            /\ c.op \in {"put", "delete"} =>
                  /\ \A e \in FixedSet \X AllKeys :
                        e # <<c.cf, c.key>> =>
                            Observe(data', e[1], e[2]) = Observe(data, e[1], e[2])
                  /\ res[p] = NoResult /\ res'[p] = Ok => db # None]_vars

\* A put to (spo, a) has returned Ok on an Open store in which (spo, b) and
\* (pos, a) still hold the values written before it.
C22_Witness ==
    \E p \in Procs :
        /\ pc[p] = "done" /\ res[p] = Ok /\ db # None
        /\ call[p] = PointCall("put", "spo", "a", "3")
        /\ Observe(data, "spo", "a") = Found("3")
        /\ Observe(data, "spo", "b") = Found("2")
        /\ Observe(data, "pos", "a") = Found("2")

=============================================================================
